---- MODULE Spec2Model ----
(***************************************************************************)
(* Model of snapshot_manager.py: one backup run is a strictly sequential   *)
(* series of external commands (zfs, docker, umount, mkdir, mount, HTTP    *)
(* health check).  Every external command is one step of the model; a      *)
(* mutating command may return nonzero, which raises RuntimeError and      *)
(* unwinds to the try/except of main().  Runs follow each other on the     *)
(* same host, so snapshots, mounts and container states persist from one   *)
(* run to the next.                                                        *)
(***************************************************************************)
EXTENDS Integers, Sequences, FiniteSets, TLC

\* ---------------------------------------------------------------- bounds
MaxRuns == 3          \* invocations of main() in one behaviour
MaxAborts == 1        \* runs that may end by a failing command or an interrupt
MaxRetention == 2     \* largest retention declared in a configuration file
MaxRetentionAny == 3  \* largest retention explored from arbitrary surviving snapshots

\* ------------------------------------------------------ program constants
DEFAULT_RETENTION == 14

\* Python None, for an int, a str and a list
NoneInt == -1
NoneStr == "<None>"
NoneList == <<"<None>">>

\* ------------------------------------------------------------ data model
Mount(origin, destination, children) ==
    [origin |-> origin, destination |-> destination, children |-> children]

App(name, containers, mounts) ==
    [name |-> name, containers |-> containers, mounts |-> mounts]

Configuration(retention, backup_containers, monitor_url, apps) ==
    [retention |-> retention, backup_containers |-> backup_containers,
     monitor_url |-> monitor_url, apps |-> apps]

\* app tables of the configuration files explored
BlogApps ==
    << App("blog", <<>>, << Mount("tank/blog", "/mnt/blog", <<>>) >>) >>

ShopApps ==
    << App("shop", <<"web", "api", "db">>,
           << Mount("tank/shop", "/mnt/shop", <<"db">>) >>) >>

TwoApps ==
    << App("wiki", <<"wiki">>, << Mount("tank/wiki", "/mnt/wiki", <<"a", "b">>) >>),
       App("blog", <<>>, << Mount("tank/blog", "/mnt/blog", <<>>) >>) >>

FileApps == {BlogApps, ShopApps, TwoApps}

FileBackupContainers == {NoneList, <<"restic", "rclone">>}

FileMonitorUrls == {NoneStr, "http://kuma/file"}

ArgMonitorUrls == {NoneStr, "http://kuma/cli"}

\* content of a TOML file: [config] retention / backup-containers / monitor-url, [[apps]]
File(retention, backup_containers, monitor_url, apps) ==
    [retention |-> retention, backup_containers |-> backup_containers,
     monitor_url |-> monitor_url, apps |-> apps]

\* the files explored: every app table with and without a backup group; a monitor URL
\* is declared in the file with two apps and a backup group
Files ==
    { f \in { File(r, b, u, a) : r \in 1..MaxRetention, b \in FileBackupContainers,
                                 u \in FileMonitorUrls, a \in FileApps } :
        f.monitor_url # NoneStr => (f.apps = TwoApps /\ f.backup_containers # NoneList) }

\* argparse namespace: -r, -b, -m (absent options are None)
Args ==
    { [retention |-> NoneInt, backup_containers |-> NoneList, monitor_url |-> u] :
        u \in ArgMonitorUrls }

VARIABLES
    file,      \* the configuration file on disk
    args,      \* the parsed command line of the runs
    config,    \* the Configuration the current run works with
    pc,        \* position of the run: [ph, a, m, i] = phase, app, mount, loop index
    snaps,     \* snaps[origin][n]: point-in-time held by origin@backup (n = 0) or origin@backup-n; 0 = absent
    mnt,       \* mnt[path]: stack of [ds, pit] mounted at path, newest last
    running,   \* running[c]: container c is up
    clock,     \* number of snapshots created so far (names the points in time)
    runs,      \* runs started so far
    aborts,    \* runs ended by an exception or an interrupt so far
    cmds,      \* mutating commands and notifications issued by the current run, in order
    exit,      \* how the last run left main(): "none", "ok", "raised"
    archived   \* archived[origin]: for each archive invocation completed since the last
               \* create of origin@backup, the points in time that invocation destroyed

vars == <<file, args, config, pc, snaps, mnt, running, clock, runs, aborts, cmds, exit, archived>>

\* ------------------------------------------------------------- helpers
Reverse(s) == [k \in 1..Len(s) |-> s[Len(s) + 1 - k]]

Range(s) == {s[k] : k \in 1..Len(s)}

MaxGen ==
    IF MaxRetention > DEFAULT_RETENTION \/ MaxRetentionAny > DEFAULT_RETENTION
    THEN MaxRetention + MaxRetentionAny
    ELSE DEFAULT_RETENTION

AllMounts(apps) == UNION {Range(apps[a].mounts) : a \in 1..Len(apps)}

Origins(apps) == {mo.origin : mo \in AllMounts(apps)}

ChildPath(mount, child) == mount.destination \o "/" \o child

ChildDataset(mount, child) == mount.origin \o "/" \o child

Paths(apps) ==
    {mo.destination : mo \in AllMounts(apps)}
    \cup UNION {{ChildPath(mo, c) : c \in Range(mo.children)} : mo \in AllMounts(apps)}

Containers(f) ==
    UNION {Range(f.apps[a].containers) : a \in 1..Len(f.apps)}
    \cup (IF f.backup_containers = NoneList THEN {} ELSE Range(f.backup_containers))

At(ph, a, m, i) == [ph |-> ph, a |-> a, m |-> m, i |-> i]

\* a command line as logged in cmds
Cmd(op) ==
    [op |-> op, path |-> "", ds |-> "", gen |-> -1, to |-> -1, pit |-> 0,
     argv |-> <<>>, ok |-> TRUE, clash |-> FALSE, res |-> "", ph |-> pc.ph, a |-> pc.a, m |-> pc.m]

ZfsDestroy(origin, n) ==
    [Cmd("zfs destroy") EXCEPT !.ds = origin, !.gen = n, !.pit = snaps[origin][n]]

ZfsRename(origin, n, k) ==
    [Cmd("zfs rename") EXCEPT !.ds = origin, !.gen = n, !.to = k,
                              !.pit = snaps[origin][n],
                              !.clash = (snaps[origin][k] # 0)]

ZfsSnapshot(origin) ==
    [Cmd("zfs snapshot") EXCEPT !.ds = origin, !.gen = 0, !.pit = clock + 1,
                                !.clash = (snaps[origin][0] # 0)]

DockerStop(list) == [Cmd("docker stop") EXCEPT !.argv = list]

DockerStart(list) == [Cmd("docker start") EXCEPT !.argv = list]

Umount(path) == [Cmd("umount") EXCEPT !.path = path]

Mkdir(path) == [Cmd("mkdir") EXCEPT !.path = path]

MountZfs(ds, origin, path) ==
    [Cmd("mount") EXCEPT !.ds = ds, !.gen = 0, !.path = path, !.pit = snaps[origin][0]]

Notify(url, status, message, res) ==
    [Cmd("notify") EXCEPT !.path = url, !.argv = <<status, message>>,
                          !.res = res, !.ok = (res = "ok")]

\* ------------------------------------------------------------------ Init
NoConfig == Configuration(0, <<>>, NoneStr, <<>>)

Init ==
    /\ file \in Files
    /\ args \in Args
    /\ config = NoConfig
    /\ pc = At("idle", 0, 0, 0)
    /\ snaps = [o \in Origins(file.apps) |-> [n \in 0..MaxGen |-> 0]]
    /\ mnt = [p \in Paths(file.apps) |-> <<>>]
    /\ running = [c \in Containers(file) |-> TRUE]
    /\ clock = 0
    /\ runs = 0
    /\ aborts = 0
    /\ cmds = <<>>
    /\ exit = "none"
    /\ archived = [o \in Origins(file.apps) |-> <<>>]

\* the n-th newest of the generations S holds point in time |{k \in S : k >= n}|:
\* a larger generation number is an older snapshot
PitsOf(S) == [n \in 0..MaxGen |-> IF n \in S THEN Cardinality({k \in S : k >= n}) ELSE 0]

\* every set of snapshots within backup, backup-1 .. backup-R that earlier runs can leave
OriginStates(retention) == {PitsOf(S) : S \in SUBSET (0..retention)}

\* a host that kept snapshots of earlier (completed and aborted) runs and was rebooted
\* since: nothing is mounted; one origin, no backup group, no monitor
InitAny ==
    /\ file \in {File(r, NoneList, NoneStr, a) : r \in 1..MaxRetentionAny,
                                                   a \in {BlogApps, ShopApps}}
    /\ args \in {a \in Args : a.monitor_url = NoneStr}
    /\ config = NoConfig
    /\ pc = At("idle", 0, 0, 0)
    /\ snaps \in [Origins(file.apps) -> OriginStates(file.retention)]
    /\ clock = Cardinality({n \in 0..MaxGen : \E o \in DOMAIN snaps : snaps[o][n] # 0})
    /\ mnt = [p \in Paths(file.apps) |-> <<>>]
    /\ running = [c \in Containers(file) |-> TRUE]
    /\ runs = 0
    /\ aborts = 0
    /\ cmds = <<>>
    /\ exit = "none"
    /\ archived = [o \in Origins(file.apps) |-> <<>>]

\* command lines with and without each of -r, -b, -m
CliArgs ==
    { [retention |-> r, backup_containers |-> b, monitor_url |-> u] :
        r \in {NoneInt, 2}, b \in {NoneList, <<"restic">>}, u \in ArgMonitorUrls }

\* files with and without each of retention, backup-containers, monitor-url
CliFiles ==
    { File(r, b, u, ShopApps) :
        r \in {NoneInt, 1}, b \in FileBackupContainers, u \in FileMonitorUrls }

\* a first invocation with any combination of command-line options and file values
InitCli ==
    /\ file \in CliFiles
    /\ args \in CliArgs
    /\ config = NoConfig
    /\ pc = At("idle", 0, 0, 0)
    /\ snaps = [o \in Origins(file.apps) |-> [n \in 0..MaxGen |-> 0]]
    /\ mnt = [p \in Paths(file.apps) |-> <<>>]
    /\ running = [c \in Containers(file) \cup {"restic"} |-> TRUE]
    /\ clock = 0
    /\ runs = 0
    /\ aborts = 0
    /\ cmds = <<>>
    /\ exit = "none"
    /\ archived = [o \in Origins(file.apps) |-> <<>>]

\* ------------------------------------------- configuration (lines 354-423)
read_config(f, input_retention, input_backup_containers, input_monitor_url) ==
    Configuration(
        IF input_retention # NoneInt THEN input_retention
        ELSE IF f.retention # NoneInt THEN f.retention
        ELSE DEFAULT_RETENTION,
        IF input_backup_containers # NoneList THEN input_backup_containers
        ELSE IF f.backup_containers # NoneList THEN f.backup_containers
        ELSE <<>>,
        IF input_monitor_url # NoneStr THEN input_monitor_url ELSE f.monitor_url,
        f.apps)

\* snapshot_manager_main passes only the path of the file to read_config
snapshot_manager_main_config(a, f) == read_config(f, NoneInt, NoneList, NoneStr)

\* ------------------------------------------------ outcomes of a command
\* `if result.returncode != 0: raise RuntimeError(...)`
FailedNever(ok) == FALSE

Failed(ok) == ~ok

\* `if app.containers:` / `if backup_containers:`
TruthyAlways(list) == TRUE

Truthy(list) == list # <<>>

\* `app.containers[::-1]` / `backup_containers[::-1]`
StopOrderAsConfigured(list) == list

StopOrder(list) == Reverse(list)

\* `["docker", "start"] + app.containers`
StartOrder(list) == list

\* `range(retention - 1, 0, -1)`
RenameRangeAscending(retention) == [k \in 1..(retention - 1) |-> k]

RenameRange(retention) == [k \in 1..(retention - 1) |-> retention - k]

\* the generation removed by remove_mount_last_snapshot: f"...@backup-{retention}"
LastGenerationOffByOne(retention) == retention + 1

LastGeneration(retention) == retention

CanFail == aborts < MaxAborts

\* return codes a command can give: it may fail while the failure budget lasts,
\* it must fail when the tool itself rejects it
Outcomes(mustFail, mayFail) ==
    IF mustFail THEN {FALSE}
    ELSE IF CanFail \/ mayFail THEN BOOLEAN
    ELSE {TRUE}

\* the Python statement after the command: raise, or go on with `next`
Continue(ok, next) ==
    IF Failed(ok)
    THEN /\ pc' = At("except", 0, 0, 0)
         /\ aborts' = aborts + 1
    ELSE /\ pc' = next
         /\ aborts' = aborts

Skip(next) ==
    /\ pc' = next
    /\ UNCHANGED <<file, args, config, snaps, mnt, running, clock, runs, aborts, cmds, exit>>

\* outcomes of the health-check call, seen by send_notification
NotifyOutcomes == {"ok", "transport", "nonjson", "notok", "nokey"}

\* send_notification returns normally unless response_data["ok"] raises KeyError
NotificationRaises(res) == res = "nokey"

\* -------------------------------------------------- positions of a run
BeginArchiveSkipStop(a, m) ==
    IF m > Len(config.apps[a].mounts) THEN At("snap", a, 1, 0)
    ELSE At("arch_remove", a, m, 0)

BeginArchive(a, m) ==
    IF m > Len(config.apps[a].mounts) THEN At("stop", a, 0, 0)
    ELSE At("arch_remove", a, m, 0)

BeginDoSnapshot(a) ==
    IF a > Len(config.apps) THEN At("bk_stop", 0, 0, 0) ELSE BeginArchive(a, 1)

BeginRenameSkipLatest(a, m, k) ==
    IF k > Len(RenameRange(config.retention)) THEN BeginArchive(a, m + 1)
    ELSE At("arch_rename", a, m, k)

BeginRename(a, m, k) ==
    IF k > Len(RenameRange(config.retention)) THEN At("arch_latest", a, m, 0)
    ELSE At("arch_rename", a, m, k)

BeginSnapNone(a, m) == At("start", a, 0, 0)

BeginSnap(a, m) ==
    IF m > Len(config.apps[a].mounts) THEN At("start", a, 0, 0)
    ELSE At("snap", a, m, 0)

RECURSIVE BeginPrune(_, _)
BeginPrune(a, m) ==
    IF a > Len(config.apps) THEN At("notify_finish", 0, 0, 0)
    ELSE IF m > Len(config.apps[a].mounts) THEN BeginPrune(a + 1, 1)
    ELSE At("prune", a, m, 0)

RECURSIVE BeginDoMountThenPrune(_, _)
BeginDoMountThenPrune(a, m) ==
    IF a > Len(config.apps) THEN BeginPrune(1, 1)
    ELSE IF m > Len(config.apps[a].mounts) THEN BeginDoMountThenPrune(a + 1, 1)
    ELSE At("um_check", a, m, 0)

RECURSIVE BeginDoMount(_, _)
BeginDoMount(a, m) ==
    IF a > Len(config.apps) THEN At("bk_start", 0, 0, 0)
    ELSE IF m > Len(config.apps[a].mounts) THEN BeginDoMount(a + 1, 1)
    ELSE At("um_check", a, m, 0)

BeginUnmountChildNone(a, m, i) == At("um_dest", a, m, 0)

BeginUnmountChild(a, m, i) ==
    IF i > Len(config.apps[a].mounts[m].children) THEN At("um_dest", a, m, 0)
    ELSE At("um_child", a, m, i)

BeginMountChildNone(a, m, i) == BeginDoMount(a, m + 1)

BeginMountChild(a, m, i) ==
    IF i > Len(config.apps[a].mounts[m].children) THEN BeginDoMount(a, m + 1)
    ELSE At("mount_child", a, m, i)

CurApp == config.apps[pc.a]

CurMount == config.apps[pc.a].mounts[pc.m]

\* ------------------------------------------------- main (lines 441-515)
Main ==
    /\ pc.ph \in {"idle", "done", "exited"}
    /\ runs < MaxRuns
    /\ runs' = runs + 1
    /\ config' = snapshot_manager_main_config(args, file)
    /\ cmds' = <<>>
    /\ exit' = "none"
    /\ pc' = At("notify_start", 0, 0, 0)
    /\ UNCHANGED <<file, args, snaps, mnt, running, clock, aborts>>
    /\ UNCHANGED archived

\* snapshot_manager, lines 327-329
NotifyStart ==
    /\ pc.ph = "notify_start"
    /\ IF config.monitor_url # NoneStr
       THEN \E res \in NotifyOutcomes :
              /\ (NotificationRaises(res) => CanFail)
              /\ cmds' = Append(cmds, Notify(config.monitor_url, "up", "start", res))
              /\ Continue(~NotificationRaises(res), BeginDoSnapshot(1))
              /\ UNCHANGED <<file, args, config, snaps, mnt, running, clock, runs, exit>>
       ELSE Skip(BeginDoSnapshot(1))
    /\ UNCHANGED archived

\* -------------------------------------------- archive (lines 56-139)
\* zfs destroy -r of a snapshot that is mounted either fails (busy) or unmounts it
Mounted(pit) == \E p \in DOMAIN mnt : \E k \in 1..Len(mnt[p]) : mnt[p][k].pit = pit

WithoutPit(stack, pit) == SelectSeq(stack, LAMBDA e : e.pit # pit)

remove_mount_last_snapshot(mount, retention, next) ==
    LET n == LastGeneration(retention) IN
    IF snaps[mount.origin][n] # 0
    THEN \E ok \in Outcomes(FALSE, Mounted(snaps[mount.origin][n])) :
           /\ cmds' = Append(cmds, [ZfsDestroy(mount.origin, n) EXCEPT
                                        !.ok = ok, !.clash = Mounted(snaps[mount.origin][n])])
           /\ snaps' = IF ok THEN [snaps EXCEPT ![mount.origin][n] = 0] ELSE snaps
           /\ mnt' = IF ok THEN [p \in DOMAIN mnt |-> WithoutPit(mnt[p], snaps[mount.origin][n])]
                     ELSE mnt
           /\ Continue(ok, next)
           /\ UNCHANGED <<file, args, config, running, clock, runs, exit>>
    ELSE Skip(next)

ArchiveRemoveLast ==
    /\ pc.ph = "arch_remove"
    /\ remove_mount_last_snapshot(CurMount, config.retention, BeginRename(pc.a, pc.m, 1))
    /\ UNCHANGED archived

rename_mount_snapshots(mount, retention, k, next) ==
    LET i == RenameRange(retention)[k] IN
    IF snaps[mount.origin][i] # 0
    THEN \E ok \in Outcomes(snaps[mount.origin][i + 1] # 0, FALSE) :
           /\ cmds' = Append(cmds, [ZfsRename(mount.origin, i, i + 1) EXCEPT !.ok = ok])
           /\ snaps' = IF ok
                       THEN [snaps EXCEPT ![mount.origin][i + 1] = snaps[mount.origin][i],
                                          ![mount.origin][i] = 0]
                       ELSE snaps
           /\ Continue(ok, next)
           /\ UNCHANGED <<file, args, config, mnt, running, clock, runs, exit>>
    ELSE Skip(next)

RenameMountSnapshots ==
    /\ pc.ph = "arch_rename"
    /\ rename_mount_snapshots(CurMount, config.retention, pc.i, BeginRename(pc.a, pc.m, pc.i + 1))
    /\ UNCHANGED archived

rename_mount_latest_snapshot(mount, next) ==
    IF snaps[mount.origin][0] # 0
    THEN \E ok \in Outcomes(snaps[mount.origin][1] # 0, FALSE) :
           /\ cmds' = Append(cmds, [ZfsRename(mount.origin, 0, 1) EXCEPT !.ok = ok])
           /\ snaps' = IF ok
                       THEN [snaps EXCEPT ![mount.origin][1] = snaps[mount.origin][0],
                                          ![mount.origin][0] = 0]
                       ELSE snaps
           /\ Continue(ok, next)
           /\ UNCHANGED <<file, args, config, mnt, running, clock, runs, exit>>
    ELSE Skip(next)

\* what the archive of this run destroyed of `origin` (line 137)
DestroyedInArchive(origin) ==
    {cmds[k].pit : k \in {j \in 1..Len(cmds) :
        cmds[j].op = "zfs destroy" /\ cmds[j].ph = "arch_remove"
        /\ cmds[j].ds = origin /\ cmds[j].ok}}

RenameMountLatestSnapshot ==
    /\ pc.ph = "arch_latest"
    /\ rename_mount_latest_snapshot(CurMount, BeginArchive(pc.a, pc.m + 1))
    /\ archived' = IF pc'.ph = "except" THEN archived
                   ELSE [archived EXCEPT ![CurMount.origin] =
                            Append(@, DestroyedInArchive(CurMount.origin))]

\* ------------------------------------ containers and create (lines 142-186)
SetRunning(list, up) ==
    [c \in DOMAIN running |-> IF c \in Range(list) THEN up ELSE running[c]]

stop_containers(list, next) ==
    \E ok \in Outcomes(list = <<>>, FALSE) :
      /\ cmds' = Append(cmds, [DockerStop(StopOrder(list)) EXCEPT !.ok = ok])
      /\ running' = IF ok THEN SetRunning(list, FALSE) ELSE running
      /\ Continue(ok, next)
      /\ UNCHANGED <<file, args, config, snaps, mnt, clock, runs, exit>>

start_containers(list, next) ==
    \E ok \in Outcomes(list = <<>>, FALSE) :
      /\ cmds' = Append(cmds, [DockerStart(StartOrder(list)) EXCEPT !.ok = ok])
      /\ running' = IF ok THEN SetRunning(list, TRUE) ELSE running
      /\ Continue(ok, next)
      /\ UNCHANGED <<file, args, config, snaps, mnt, clock, runs, exit>>

\* do_snapshot, lines 180-181
StopContainers ==
    /\ pc.ph = "stop"
    /\ IF Truthy(CurApp.containers)
       THEN stop_containers(CurApp.containers, BeginSnap(pc.a, 1))
       ELSE Skip(BeginSnap(pc.a, 1))
    /\ UNCHANGED archived

\* one iteration of the loop of snapshot_mounts
SnapshotMounts ==
    /\ pc.ph = "snap"
    /\ \E ok \in Outcomes(snaps[CurMount.origin][0] # 0, FALSE) :
         /\ cmds' = Append(cmds, [ZfsSnapshot(CurMount.origin) EXCEPT !.ok = ok])
         /\ clock' = IF ok THEN clock + 1 ELSE clock
         /\ snaps' = IF ok THEN [snaps EXCEPT ![CurMount.origin][0] = clock + 1] ELSE snaps
         /\ archived' = IF ok THEN [archived EXCEPT ![CurMount.origin] = <<>>] ELSE archived
         /\ Continue(ok, BeginSnap(pc.a, pc.m + 1))
         /\ UNCHANGED <<file, args, config, mnt, running, runs, exit>>

\* do_snapshot, lines 185-186
StartContainers ==
    /\ pc.ph = "start"
    /\ IF Truthy(CurApp.containers)
       THEN start_containers(CurApp.containers, BeginDoSnapshot(pc.a + 1))
       ELSE Skip(BeginDoSnapshot(pc.a + 1))
    /\ UNCHANGED archived

\* snapshot_manager, lines 334-335
StopBackupContainers ==
    /\ pc.ph = "bk_stop"
    /\ IF Truthy(config.backup_containers)
       THEN stop_containers(config.backup_containers, BeginDoMount(1, 1))
       ELSE Skip(BeginDoMount(1, 1))
    /\ UNCHANGED archived

\* snapshot_manager, lines 340-341
StartBackupContainers ==
    /\ pc.ph = "bk_start"
    /\ IF Truthy(config.backup_containers)
       THEN start_containers(config.backup_containers, BeginPrune(1, 1))
       ELSE Skip(BeginPrune(1, 1))
    /\ UNCHANGED archived

\* ------------------------------------------- republish (lines 189-266)
IsMountPoint(path) == mnt[path] # <<>>

Pop(stack) == SubSeq(stack, 1, Len(stack) - 1)

ChildMounted(mount) ==
    \E k \in 1..Len(mount.children) : IsMountPoint(ChildPath(mount, mount.children[k]))

umount(path, busy, next) ==
    \E ok \in Outcomes(~IsMountPoint(path) \/ busy, FALSE) :
      /\ cmds' = Append(cmds, [Umount(path) EXCEPT !.ok = ok, !.clash = busy])
      /\ mnt' = IF ok THEN [mnt EXCEPT ![path] = Pop(mnt[path])] ELSE mnt
      /\ Continue(ok, next)
      /\ UNCHANGED <<file, args, config, snaps, running, clock, runs, exit>>

\* unmount_mount, lines 190-191: `mountpoint -q destination`
UnmountMountCheckSkipped ==
    /\ pc.ph = "um_check"
    /\ Skip(At("mkdir", pc.a, pc.m, 0))
    /\ UNCHANGED archived

UnmountMountCheck ==
    /\ pc.ph = "um_check"
    /\ IF IsMountPoint(CurMount.destination)
       THEN Skip(BeginUnmountChild(pc.a, pc.m, 1))
       ELSE Skip(At("mkdir", pc.a, pc.m, 0))
    /\ UNCHANGED archived

\* unmount_mount, lines 192-207: one child
UnmountMountChild ==
    /\ pc.ph = "um_child"
    /\ LET path == ChildPath(CurMount, CurMount.children[pc.i])
           next == BeginUnmountChild(pc.a, pc.m, pc.i + 1) IN
       IF IsMountPoint(path) THEN umount(path, FALSE, next) ELSE Skip(next)
    /\ UNCHANGED archived

\* unmount_mount, lines 209-217
UnmountMountDest ==
    /\ pc.ph = "um_dest"
    /\ umount(CurMount.destination, ChildMounted(CurMount), At("mkdir", pc.a, pc.m, 0))
    /\ UNCHANGED archived

\* mount_mount, lines 221-228
MountMountMkdir ==
    /\ pc.ph = "mkdir"
    /\ \E ok \in Outcomes(FALSE, FALSE) :
         /\ cmds' = Append(cmds, [Mkdir(CurMount.destination) EXCEPT !.ok = ok])
         /\ Continue(ok, At("mount", pc.a, pc.m, 0))
         /\ UNCHANGED <<file, args, config, snaps, mnt, running, clock, runs, exit>>
    /\ UNCHANGED archived

mount(ds, origin, path, misplaced, next) ==
    \E ok \in Outcomes(snaps[origin][0] = 0, FALSE) :
      /\ cmds' = Append(cmds, [MountZfs(ds, origin, path) EXCEPT !.ok = ok, !.clash = misplaced])
      /\ mnt' = IF ok
                THEN [mnt EXCEPT ![path] = Append(mnt[path], [ds |-> ds, pit |-> snaps[origin][0]])]
                ELSE mnt
      /\ Continue(ok, next)
      /\ UNCHANGED <<file, args, config, snaps, running, clock, runs, exit>>

\* mount_mount, lines 230-240
MountMountDest ==
    /\ pc.ph = "mount"
    /\ mount(CurMount.origin, CurMount.origin, CurMount.destination,
             IsMountPoint(CurMount.destination), BeginMountChild(pc.a, pc.m, 1))
    /\ UNCHANGED archived

\* mount_mount, lines 242-259: one child
MountMountChild ==
    /\ pc.ph = "mount_child"
    /\ mount(ChildDataset(CurMount, CurMount.children[pc.i]), CurMount.origin,
             ChildPath(CurMount, CurMount.children[pc.i]),
             ~IsMountPoint(CurMount.destination)
                \/ IsMountPoint(ChildPath(CurMount, CurMount.children[pc.i])),
             BeginMountChild(pc.a, pc.m, pc.i + 1))
    /\ UNCHANGED archived

\* ---------------------------------------------- prune (lines 129-132)
RemoveLastSnapshotSkipped ==
    /\ pc.ph = "prune"
    /\ Skip(BeginPrune(pc.a, pc.m + 1))
    /\ UNCHANGED archived

RemoveLastSnapshot ==
    /\ pc.ph = "prune"
    /\ remove_mount_last_snapshot(CurMount, config.retention, BeginPrune(pc.a, pc.m + 1))
    /\ UNCHANGED archived

\* snapshot_manager, lines 346-348
NotifyFinish ==
    /\ pc.ph = "notify_finish"
    /\ IF config.monitor_url # NoneStr
       THEN \E res \in NotifyOutcomes :
              /\ (NotificationRaises(res) => CanFail)
              /\ cmds' = Append(cmds, Notify(config.monitor_url, "up", "finish", res))
              /\ Continue(~NotificationRaises(res), At("done", 0, 0, 0))
              /\ exit' = IF NotificationRaises(res) THEN exit ELSE "ok"
              /\ UNCHANGED <<file, args, config, snaps, mnt, running, clock, runs>>
       ELSE /\ pc' = At("done", 0, 0, 0)
            /\ exit' = "ok"
            /\ UNCHANGED <<file, args, config, snaps, mnt, running, clock, runs, aborts, cmds>>
    /\ UNCHANGED archived

\* ------------------------------------- the try/except of main (505-515)
InRun ==
    pc.ph \notin {"idle", "done", "exited", "except", "interrupt"}

\* SIGINT raises KeyboardInterrupt between two statements of the run
Interrupt ==
    /\ InRun
    /\ CanFail
    /\ pc' = At("interrupt", 0, 0, 0)
    /\ aborts' = aborts + 1
    /\ UNCHANGED <<file, args, config, snaps, mnt, running, clock, runs, cmds, exit>>
    /\ UNCHANGED archived

\* the URL main() notifies on abort: `args.monitor_url`
AbortUrl(a, c) == a.monitor_url

\* except KeyboardInterrupt, lines 507-510
ExceptKeyboardInterrupt ==
    /\ pc.ph = "interrupt"
    /\ pc' = At("exited", 0, 0, 0)
    /\ IF AbortUrl(args, config) # NoneStr
       THEN \E res \in NotifyOutcomes :
              /\ cmds' = Append(cmds, Notify(AbortUrl(args, config), "down", "interrupted", res))
              /\ exit' = IF NotificationRaises(res) THEN "raised" ELSE "ok"
       ELSE /\ cmds' = cmds
            /\ exit' = "ok"
    /\ UNCHANGED <<file, args, config, snaps, mnt, running, clock, runs, aborts>>
    /\ UNCHANGED archived

\* except Exception, lines 511-515
ExceptException ==
    /\ pc.ph = "except"
    /\ pc' = At("exited", 0, 0, 0)
    /\ exit' = "raised"
    /\ IF AbortUrl(args, config) # NoneStr
       THEN \E res \in NotifyOutcomes :
              cmds' = Append(cmds, Notify(AbortUrl(args, config), "down", "exception", res))
       ELSE cmds' = cmds
    /\ UNCHANGED <<file, args, config, snaps, mnt, running, clock, runs, aborts>>
    /\ UNCHANGED archived

Next ==
    \/ Main
    \/ NotifyStart
    \/ ArchiveRemoveLast
    \/ RenameMountSnapshots
    \/ RenameMountLatestSnapshot
    \/ StopContainers
    \/ SnapshotMounts
    \/ StartContainers
    \/ StopBackupContainers
    \/ UnmountMountCheck
    \/ UnmountMountChild
    \/ UnmountMountDest
    \/ MountMountMkdir
    \/ MountMountDest
    \/ MountMountChild
    \/ StartBackupContainers
    \/ RemoveLastSnapshot
    \/ NotifyFinish
    \/ Interrupt
    \/ ExceptKeyboardInterrupt
    \/ ExceptException

Spec == Init /\ [][Next]_vars

SpecAny == InitAny /\ [][Next]_vars

\* between two runs the operator lowers `retention` in the file, which read_config
\* reads again at the start of every run
LowerRetention ==
    /\ pc.ph \in {"idle", "done", "exited"}
    /\ \E r \in 1..(file.retention - 1) : file' = [file EXCEPT !.retention = r]
    /\ UNCHANGED <<args, config, pc, snaps, mnt, running, clock, runs, aborts, cmds, exit>>
    /\ UNCHANGED archived

NextLowered == Next \/ LowerRetention

SpecCli == InitCli /\ [][Next]_vars

SpecLowered == InitAny /\ [][NextLowered]_vars

TypeOK ==
    /\ pc.ph \in {"idle", "notify_start", "arch_remove", "arch_rename", "arch_latest",
                  "stop", "snap", "start", "bk_stop", "um_check", "um_child", "um_dest",
                  "mkdir", "mount", "mount_child", "bk_start", "prune", "notify_finish",
                  "done", "except", "interrupt", "exited"}
    /\ runs \in 0..MaxRuns
    /\ exit \in {"none", "ok", "raised"}

\* ======================================================================
\* Properties
\* ======================================================================
\* names of the snapshots of an origin that exist: 0 is @backup, n is @backup-n
Names(o) == {n \in 0..MaxGen : snaps[o][n] # 0}

Mutating(c) == c.op # "notify"

AllSucceeded == \A k \in 1..Len(cmds) : cmds[k].ok

\* C1 as stated: after R+1 consecutive successful cycles from an empty origin the
\* snapshots are exactly backup, backup-1 .. backup-R, and there are never more.
C1_ExactlyRArchived ==
    \A o \in DOMAIN snaps :
        /\ (aborts = 0 => Names(o) \subseteq 0..config.retention)
        /\ (pc.ph = "done" /\ aborts = 0 /\ runs = config.retention + 1)
              => Names(o) = 0..config.retention

\* C1 amended: after R+1 consecutive successful cycles from an empty origin the
\* snapshots are exactly backup, backup-1 .. backup-(R-1) (prune has destroyed
\* backup-R), and at no moment of these cycles more than backup, backup-1 .. backup-R.
C1_RMinusOneArchived ==
    \A o \in DOMAIN snaps :
        /\ (aborts = 0 => Names(o) \subseteq 0..config.retention)
        /\ (pc.ph = "done" /\ aborts = 0 /\ runs = config.retention + 1)
              => Names(o) = 0..(config.retention - 1)

C1_Witness ==
    /\ pc.ph = "done" /\ aborts = 0 /\ runs = config.retention + 1
    /\ config.retention >= 2
    /\ \A o \in DOMAIN snaps : Names(o) = 0..(config.retention - 1)

\* the commands of the run, reduced to <<command, generation, target generation>>
Trace == [k \in 1..Len(cmds) |-> <<cmds[k].op, cmds[k].gen, cmds[k].to>>]

C2_Scenario ==
    /\ file.apps = BlogApps
    /\ config.retention = 2
    /\ config.backup_containers = <<>>
    /\ config.monitor_url = NoneStr
    /\ aborts = 0
    /\ pc.ph = "done"

C2_Run1 ==
    << <<"zfs snapshot", 0, -1>>, <<"mkdir", -1, -1>>, <<"mount", 0, -1>> >>

C2_Run2 ==
    << <<"zfs rename", 0, 1>>, <<"zfs snapshot", 0, -1>>,
       <<"umount", -1, -1>>, <<"mkdir", -1, -1>>, <<"mount", 0, -1>> >>

C2_Run3 ==
    << <<"zfs rename", 1, 2>>, <<"zfs rename", 0, 1>>, <<"zfs snapshot", 0, -1>>,
       <<"umount", -1, -1>>, <<"mkdir", -1, -1>>, <<"mount", 0, -1>>,
       <<"zfs destroy", 2, -1>> >>

\* C2: retention 2, one app with one mount, no children, containers or monitor URL,
\* from no snapshots.  Run 1 only creates backup and mounts it; run 2 renames backup to
\* backup-1, creates, remounts; run 3 renames backup-1 to backup-2, backup to backup-1,
\* creates, remounts, and prune destroys backup-2, leaving exactly backup and backup-1.
C2_EndToEnd ==
    C2_Scenario =>
        /\ AllSucceeded
        /\ (runs = 1 => Trace = C2_Run1 /\ Names("tank/blog") = {0})
        /\ (runs = 2 => Trace = C2_Run2 /\ Names("tank/blog") = {0, 1})
        /\ (runs = 3 => Trace = C2_Run3 /\ Names("tank/blog") = {0, 1})

C2_Witness == C2_Scenario /\ runs = 3 /\ Trace = C2_Run3

\* a successful stop of this list is not followed by a start of the same containers
StillStopped(i) ==
    \A k \in (i + 1)..Len(cmds) :
        ~(cmds[k].op = "docker start" /\ cmds[k].ok
          /\ Range(cmds[k].argv) = Range(cmds[i].argv))

\* a later command of the run destroyed the point in time that command i handled
DestroyedLater(i) ==
    \E k \in (i + 1)..Len(cmds) :
        cmds[k].op = "zfs destroy" /\ cmds[k].ok /\ cmds[k].pit = cmds[i].pit

\* what the successful command i applied is still in place
Applied(i) ==
    /\ (cmds[i].op = "docker stop" /\ StillStopped(i))
          => \A c \in Range(cmds[i].argv) : ~running[c]
    /\ (cmds[i].op = "zfs snapshot" /\ ~DestroyedLater(i))
          => snaps[cmds[i].ds][0] = cmds[i].pit
    /\ (cmds[i].op = "zfs rename" /\ ~DestroyedLater(i))
          => snaps[cmds[i].ds][cmds[i].to] = cmds[i].pit
    /\ cmds[i].op = "zfs destroy" => \A n \in 0..MaxGen : snaps[cmds[i].ds][n] # cmds[i].pit
    /\ (cmds[i].op = "mount" /\ ~DestroyedLater(i))
          => mnt[cmds[i].path] # <<>> /\ mnt[cmds[i].path][Len(mnt[cmds[i].path])].pit = cmds[i].pit

LaterPhases ==
    {"bk_stop", "um_check", "um_child", "um_dest", "mkdir", "mount", "mount_child",
     "bk_start", "prune", "notify_finish"}

\* C3: a mutating command that returns nonzero ends the run there: no further snapshot,
\* mount or container command, nothing applied before is undone (stopped containers stay
\* stopped), the error leaves main(); after a failed stop of an app's containers there is
\* no snapshot of that app and no later app or phase.
C3_AbortOnFailure ==
    \A j \in 1..Len(cmds) :
        (Mutating(cmds[j]) /\ ~cmds[j].ok) =>
            /\ \A k \in (j + 1)..Len(cmds) : ~Mutating(cmds[k])
            /\ pc.ph \in {"except", "exited"}
            /\ (pc.ph = "exited" => exit = "raised")
            /\ \A i \in 1..(j - 1) : Mutating(cmds[i]) => (cmds[i].ok /\ Applied(i))
            /\ (cmds[j].op = "docker stop" /\ cmds[j].ph = "stop") =>
                  \A k \in 1..Len(cmds) :
                      /\ ~(cmds[k].op = "zfs snapshot" /\ cmds[k].a = cmds[j].a)
                      /\ Mutating(cmds[k]) => (cmds[k].a <= cmds[j].a /\ cmds[k].ph \notin LaterPhases)

C3_Witness ==
    /\ pc.ph = "exited"
    /\ exit = "raised"
    /\ \E j \in 1..Len(cmds) :
          /\ cmds[j].op = "zfs snapshot" /\ ~cmds[j].ok
          /\ \E i \in 1..(j - 1) :
                cmds[i].op = "docker stop" /\ cmds[i].ok
                /\ \A c \in Range(cmds[i].argv) : ~running[c]

NotifiedAs(status, message) ==
    \E k \in 1..Len(cmds) : cmds[k].op = "notify" /\ cmds[k].argv = <<status, message>>

DownNotified == NotifiedAs("down", "exception") \/ NotifiedAs("down", "interrupted")

\* C4: when a monitor endpoint is configured for the run, by the file or by the command
\* line, and the run aborts, a "down" notification is sent before the process ends; every
\* run that sent (up, "start") and does not reach Done sends a "down" notification.
C4_DownOnAbort ==
    pc.ph = "exited" =>
        /\ (file.monitor_url # NoneStr \/ args.monitor_url # NoneStr) => DownNotified
        /\ NotifiedAs("up", "start") => DownNotified

\* C5: two archive invocations in a row on a mount, with no create in between, raise no
\* error and together destroy no more points in time than the first one alone.
C5_ArchiveReplay ==
    /\ \A k \in 1..Len(cmds) : cmds[k].op = "zfs rename" => ~cmds[k].clash
    /\ \A o \in DOMAIN archived : \A k \in 1..(Len(archived[o]) - 1) :
          Cardinality(archived[o][k] \cup archived[o][k + 1]) <= Cardinality(archived[o][k])

\* C6: within archive the destroy of backup-R comes first, then the renames in strictly
\* descending generation order, backup to backup-1 last; from every set of snapshots
\* within backup, backup-1 .. backup-R no rename is issued whose target exists.
C6_DescendingRenames ==
    \A j \in 1..Len(cmds) :
        cmds[j].op = "zfs rename" =>
            /\ ~cmds[j].clash
            /\ cmds[j].to = cmds[j].gen + 1
            /\ \A i \in 1..(j - 1) :
                  (cmds[i].op = "zfs rename" /\ cmds[i].ds = cmds[j].ds)
                      => cmds[i].gen > cmds[j].gen
            /\ \A i \in (j + 1)..Len(cmds) :
                  (cmds[i].op = "zfs destroy" /\ cmds[i].ds = cmds[j].ds)
                      => cmds[i].ph = "prune"

\* retention 3 with every generation present: destroy backup-3, then backup-2 to
\* backup-3 before backup-1 to backup-2, then backup to backup-1
C6_Witness ==
    /\ config.retention = 3
    /\ \E h, i, j, k \in 1..Len(cmds) :
          /\ h < i /\ i < j /\ j < k
          /\ cmds[h].op = "zfs destroy" /\ cmds[h].gen = 3 /\ cmds[h].ok
          /\ cmds[i].op = "zfs rename" /\ cmds[i].gen = 2 /\ cmds[i].to = 3 /\ cmds[i].ok
          /\ cmds[j].op = "zfs rename" /\ cmds[j].gen = 1 /\ cmds[j].to = 2 /\ cmds[j].ok
          /\ cmds[k].op = "zfs rename" /\ cmds[k].gen = 0 /\ cmds[k].to = 1 /\ cmds[k].ok

\* the configured list a docker command was built from
ConfiguredList(c) ==
    IF c.ph \in {"stop", "start"} THEN config.apps[c.a].containers
    ELSE config.backup_containers

\* C7: docker stop is given the containers in the exact reverse of the configured order,
\* docker start in the configured order; [web, api, db] stops as [db, api, web].
C7_StopReverseStartForward ==
    \A k \in 1..Len(cmds) :
        LET c == cmds[k]
            l == ConfiguredList(c) IN
        /\ c.op = "docker stop" =>
              /\ Len(c.argv) = Len(l)
              /\ \A i \in 1..Len(l) : c.argv[i] = l[Len(l) + 1 - i]
              /\ (l = <<"web", "api", "db">> => c.argv = <<"db", "api", "web">>)
        /\ c.op = "docker start" =>
              /\ c.argv = l
              /\ (l = <<"web", "api", "db">> => c.argv = <<"web", "api", "db">>)

C7_Witness ==
    \E h, i, j, k \in 1..Len(cmds) :
        /\ h < i /\ i < j /\ j < k
        /\ cmds[h].op = "docker stop" /\ cmds[h].argv = <<"db", "api", "web">> /\ cmds[h].ok
        /\ cmds[i].op = "docker start" /\ cmds[i].argv = <<"web", "api", "db">> /\ cmds[i].ok
        /\ cmds[j].op = "docker stop" /\ cmds[j].argv = <<"rclone", "restic">> /\ cmds[j].ok
        /\ cmds[k].op = "docker start" /\ cmds[k].argv = <<"restic", "rclone">> /\ cmds[k].ok

Docker(c) == c.op \in {"docker stop", "docker start"}

\* C8: docker stop/start is never invoked with an empty list; for an app without
\* containers and for an empty backup group no stop or start is issued, while the app is
\* still archived, snapshotted, remounted and pruned.
C8_NoEmptyDockerCall ==
    /\ \A k \in 1..Len(cmds) : Docker(cmds[k]) => cmds[k].argv # <<>>
    /\ pc.ph = "done" =>
          /\ config.backup_containers = <<>> =>
                \A k \in 1..Len(cmds) : ~(Docker(cmds[k]) /\ cmds[k].ph \in {"bk_stop", "bk_start"})
          /\ \A a \in 1..Len(config.apps) :
                config.apps[a].containers = <<>> =>
                    /\ \A k \in 1..Len(cmds) : ~(Docker(cmds[k]) /\ cmds[k].a = a)
                    /\ \A m \in 1..Len(config.apps[a].mounts) :
                          LET mo == config.apps[a].mounts[m] IN
                          /\ \E k \in 1..Len(cmds) :
                                cmds[k].op = "zfs snapshot" /\ cmds[k].ds = mo.origin /\ cmds[k].ok
                          /\ \E k \in 1..Len(cmds) :
                                cmds[k].op = "mount" /\ cmds[k].path = mo.destination /\ cmds[k].ok
                          /\ snaps[mo.origin][1] # 0 =>
                                \E k \in 1..Len(cmds) :
                                    cmds[k].op = "zfs rename" /\ cmds[k].ds = mo.origin /\ cmds[k].to = 1
                          /\ snaps[mo.origin][config.retention] = 0

\* a run over an app with containers and an app without, with an empty backup group,
\* that archived, stopped and started the first app and destroyed in prune
C8_Witness ==
    /\ pc.ph = "done"
    /\ file.apps = TwoApps
    /\ config.backup_containers = <<>>
    /\ \E k \in 1..Len(cmds) : cmds[k].op = "docker stop" /\ cmds[k].a = 1
    /\ \E k \in 1..Len(cmds) : cmds[k].op = "zfs rename" /\ cmds[k].a = 2
    /\ \E k \in 1..Len(cmds) : cmds[k].op = "zfs destroy" /\ cmds[k].a = 2 /\ cmds[k].ph = "prune"

\* the unmount and mount commands the run issued for mount m of app a
Republish(a, m) ==
    SelectSeq(cmds, LAMBDA c : c.op \in {"umount", "mount"} /\ c.a = a /\ c.m = m)

\* unmount every child, unmount the destination, mount it, mount every child
FullRepublish(mo) ==
    LET n == Len(mo.children) IN
    [k \in 1..(2 * n + 2) |->
        IF k <= n THEN <<"umount", "", ChildPath(mo, mo.children[k])>>
        ELSE IF k = n + 1 THEN <<"umount", "", mo.destination>>
        ELSE IF k = n + 2 THEN <<"mount", mo.origin, mo.destination>>
        ELSE <<"mount", ChildDataset(mo, mo.children[k - n - 2]),
               ChildPath(mo, mo.children[k - n - 2])>>]

\* C9: in republish every child is unmounted before the destination and mounted after
\* it: no unmount of the destination while a declared child is mounted, no mount of a
\* child before the mount of the destination succeeded, children mounted in configured
\* order; from a fully mounted destination the sequence is unmount(children),
\* unmount(destination), mount(destination), mount(children).
C9_ChildrenInsideParent ==
    \A a \in 1..Len(config.apps) : \A m \in 1..Len(config.apps[a].mounts) :
        LET mo == config.apps[a].mounts[m]
            seq == Republish(a, m)
            full == FullRepublish(mo)
            n == Len(mo.children)
            IsChild(c) == c.path # mo.destination
            mounts == SelectSeq(seq, LAMBDA c : c.op = "mount") IN
        /\ \A j \in 1..Len(seq) :
              /\ ~seq[j].clash
              /\ (seq[j].op = "mount" /\ IsChild(seq[j])) =>
                    \E i \in 1..(j - 1) :
                        seq[i].op = "mount" /\ ~IsChild(seq[i]) /\ seq[i].ok
              /\ \A i \in 1..(j - 1) :
                    /\ ~(seq[i].op = "mount" /\ seq[j].op = "umount")
                    /\ (seq[i].op = "umount" /\ seq[j].op = "umount") => IsChild(seq[i])
                    /\ (seq[i].op = "mount" /\ seq[j].op = "mount") => IsChild(seq[j])
        /\ Len(mounts) <= n + 1
        /\ \A k \in 1..Len(mounts) :
              <<"mount", mounts[k].ds, mounts[k].path>> = full[n + 1 + k]
        /\ (pc.ph = "done" /\ aborts = 0 /\ runs >= 2) =>
              [k \in 1..Len(seq) |-> <<seq[k].op, seq[k].ds, seq[k].path>>] = full

\* second run over a destination with two children, all mounted by the first run
C9_Witness ==
    /\ pc.ph = "done" /\ aborts = 0 /\ runs >= 2
    /\ file.apps = TwoApps
    /\ Len(Republish(1, 1)) = 6
    /\ \A k \in 1..6 : Republish(1, 1)[k].ok

PerApp == {"arch_remove", "arch_rename", "arch_latest", "stop", "snap", "start"}

Remount == {"um_check", "um_child", "um_dest", "mkdir", "mount", "mount_child"}

\* the coordinator state a position of the run belongs to
Rank(ph) ==
    CASE ph = "notify_start" -> 0
      [] ph \in PerApp -> 1
      [] ph = "bk_stop" -> 2
      [] ph \in Remount -> 3
      [] ph = "bk_start" -> 4
      [] ph = "prune" -> 5
      [] ph = "notify_finish" -> 6
      [] OTHER -> 7

\* archive, stop, create, start inside the step of one app
StepOf(ph) ==
    CASE ph = "stop" -> 2
      [] ph = "snap" -> 3
      [] ph = "start" -> 4
      [] OTHER -> 1

SucceededBefore(j, op, ph, a) ==
    \E i \in 1..(j - 1) :
        cmds[i].op = op /\ cmds[i].ph = ph /\ cmds[i].a = a /\ cmds[i].ok

\* C10: a run goes through start notification, the archive/stop/create/start step of
\* every app in configured order, backup-group stop, the republish of every app,
\* backup-group start, the prune of every app, finish notification, in this order: no
\* republish before every app's snapshot is created, no prune destroy before the backup
\* group and every app's containers are started again, (up, "finish") only after every
\* prune succeeded.
C10_PhaseOrder ==
    /\ cmds # <<>> =>
          \* the newest command against all earlier ones: in every state, hence for
          \* every command at the moment it is issued
          LET j == Len(cmds)
              d == cmds[j] IN
          /\ InRun => Rank(d.ph) <= Rank(pc.ph)
          /\ \A i \in 1..(j - 1) :
                LET c == cmds[i] IN
                /\ Rank(c.ph) <= Rank(d.ph)
                /\ (Rank(c.ph) = Rank(d.ph) /\ Rank(c.ph) \in {1, 3, 5}) => c.a <= d.a
                /\ (Rank(c.ph) = 1 /\ Rank(d.ph) = 1 /\ c.a = d.a) => StepOf(c.ph) <= StepOf(d.ph)
          /\ Rank(d.ph) = 3 =>
                \A a \in 1..Len(config.apps) : \A m \in 1..Len(config.apps[a].mounts) :
                    \E i \in 1..(j - 1) :
                        /\ cmds[i].op = "zfs snapshot" /\ cmds[i].ok
                        /\ cmds[i].ds = config.apps[a].mounts[m].origin
          /\ d.ph = "prune" =>
                /\ \A c \in DOMAIN running : running[c]
                /\ config.backup_containers # <<>> =>
                      SucceededBefore(j, "docker start", "bk_start", 0)
                /\ \A a \in 1..Len(config.apps) :
                      config.apps[a].containers # <<>> =>
                          SucceededBefore(j, "docker start", "start", a)
          /\ (d.op = "notify" /\ d.argv = <<"up", "finish">>) =>
                /\ \A i \in 1..(j - 1) : Mutating(cmds[i]) => cmds[i].ok
                /\ \A o \in DOMAIN snaps : snaps[o][config.retention] = 0
    /\ (pc.ph = "done" /\ config.monitor_url # NoneStr) =>
          /\ cmds[1].argv = <<"up", "start">>
          /\ cmds[Len(cmds)].argv = <<"up", "finish">>

\* a completed run with two apps, a backup group and a monitor, whose prune destroyed
C10_Witness ==
    /\ pc.ph = "done"
    /\ file.apps = TwoApps
    /\ config.backup_containers # <<>>
    /\ config.monitor_url # NoneStr
    /\ \E j \in 1..Len(cmds) : cmds[j].ph = "prune" /\ cmds[j].a = 2 /\ cmds[j].ok

\* the settings of the command line that the run must use when they are given
OverridesUsed ==
    /\ args.retention # NoneInt => config.retention = args.retention
    /\ args.backup_containers # NoneList => config.backup_containers = args.backup_containers
    /\ args.monitor_url # NoneStr => config.monitor_url = args.monitor_url

\* the settings of the file, else the defaults, that the run must use without an override
FileOrDefaultUsed ==
    /\ args.retention = NoneInt =>
          config.retention = IF file.retention # NoneInt THEN file.retention
                             ELSE DEFAULT_RETENTION
    /\ args.backup_containers = NoneList =>
          config.backup_containers = IF file.backup_containers # NoneList
                                     THEN file.backup_containers ELSE <<>>
    /\ args.monitor_url = NoneStr => config.monitor_url = file.monitor_url

\* C11: the retention, the backup containers and the monitor URL a run works with are
\* the command-line override when one is given, else the value of the file, else the
\* default (14, no backup containers, no monitor), for every combination of present and
\* absent override and file value.
C11_OverridePrecedence ==
    runs > 0 => (OverridesUsed /\ FileOrDefaultUsed)

\* the part of C11 the code meets: without an override, the file, else the default
C11_FileThenDefault ==
    runs > 0 => FileOrDefaultUsed

\* the newest entry of cmds is a notification
NotifiedLast == Len(cmds) > 0 /\ cmds[Len(cmds)].op = "notify"

\* C12: whatever the health check answers (transport error or timeout, a body that is
\* not JSON, JSON with "ok" false, JSON without "ok"), send_notification returns: a
\* start or finish notification is never what sends the run to the exception handler,
\* and a run interrupted by SIGINT still leaves main() without an exception.
C12_NotificationNeverFatal ==
    /\ ~(pc.ph = "except" /\ NotifiedLast)
    /\ (pc.ph = "exited" /\ NotifiedLast /\ cmds[Len(cmds)].argv = <<"down", "interrupted">>)
          => exit = "ok"

\* the outcomes of C12 that the code does absorb: every answer but JSON without "ok"
C12_OtherOutcomesAbsorbed ==
    /\ (pc.ph = "except" /\ NotifiedLast) => cmds[Len(cmds)].res = "nokey"
    /\ (pc.ph = "exited" /\ NotifiedLast /\ cmds[Len(cmds)].argv = <<"down", "interrupted">>
          /\ cmds[Len(cmds)].res # "nokey")
          => exit = "ok"

\* C13: after every successful cycle with retention R each origin has at most R archived
\* generations and none older than backup-R, also when the snapshots were made by
\* cycles with a larger retention and the retention was lowered since.
C13_AtMostRetention ==
    (pc.ph = "done" /\ AllSucceeded) =>
        \A o \in DOMAIN snaps :
            /\ Cardinality(Names(o) \ {0}) <= config.retention
            /\ \A n \in Names(o) : n <= config.retention

\* the backup group is configured and up
BackupGroupRunning ==
    \E k \in 1..Len(config.backup_containers) : running[config.backup_containers[k]]

Remounting(c) == c.op \in {"umount", "mount"}

\* this run changed no published mount: no umount, no mount, no destroy of a mounted
\* snapshot has succeeded
PreviousCycle ==
    \A k \in 1..Len(cmds) :
        cmds[k].ok => /\ ~Remounting(cmds[k])
                      /\ ~(cmds[k].op = "zfs destroy" /\ cmds[k].clash)

CreatedInRun(o, pit) ==
    \E k \in 1..Len(cmds) :
        cmds[k].op = "zfs snapshot" /\ cmds[k].ok /\ cmds[k].ds = o /\ cmds[k].pit = pit

\* every destination and child of `mo` shows the snapshot this run created
PublishedNew(mo) ==
    \A p \in {mo.destination} \cup {ChildPath(mo, mo.children[i]) : i \in 1..Len(mo.children)} :
        /\ IsMountPoint(p)
        /\ CreatedInRun(mo.origin, mnt[p][Len(mnt[p])].pit)

NewCycle == \A mo \in AllMounts(config.apps) : PublishedNew(mo)

\* every umount and mount comes after the successful stop of the backup group and
\* before its start, while the group is down
C14_RemountWhileGroupDown ==
    (config.backup_containers # <<>> /\ Len(cmds) > 0 /\ Remounting(cmds[Len(cmds)])) =>
        /\ ~BackupGroupRunning
        /\ \E i \in 1..(Len(cmds) - 1) :
              cmds[i].op = "docker stop" /\ cmds[i].ph = "bk_stop" /\ cmds[i].ok
        /\ \A i \in 1..Len(cmds) : cmds[i].ph # "bk_start"

\* C14: with a backup group, umount and mount are issued only between the successful
\* stop and the start of the group, and whenever the group is up, in completed and in
\* aborted runs, the published mounts are all those of the previous cycle or all those
\* of the new cycle.
C14_NoHalfUpdatedMounts ==
    /\ C14_RemountWhileGroupDown
    /\ (runs > 0 /\ BackupGroupRunning) => (PreviousCycle \/ NewCycle)

\* no published snapshot was destroyed in this run
NoMountedDestroyed ==
    \A k \in 1..Len(cmds) : ~(cmds[k].op = "zfs destroy" /\ cmds[k].clash /\ cmds[k].ok)

\* the half of C14 about the mounts, in the runs that destroy no published snapshot
C14_NoHalfUpdatedUnlessDestroyed ==
    (runs > 0 /\ BackupGroupRunning /\ NoMountedDestroyed) => (PreviousCycle \/ NewCycle)

\* before the j-th command of the run the containers of app a were stopped by do_snapshot
\* and their start has not been issued
ContainersDown(a, j) ==
    \E i \in 1..(j - 1) :
        /\ cmds[i].op = "docker stop" /\ cmds[i].ph = "stop" /\ cmds[i].a = a /\ cmds[i].ok
        /\ \A k \in (i + 1)..(j - 1) : ~(cmds[k].ph = "start" /\ cmds[k].a = a)

AppOrigins(a) == {config.apps[a].mounts[m].origin : m \in 1..Len(config.apps[a].mounts)}

\* C15: for every app with containers, a snapshot of one of its mounts is created only
\* after its stop succeeded and before its start is issued, with all its containers
\* down; and between the stop and the start of an app the run issues nothing but the
\* creates of that app's mounts (no destroy, rename, umount, mkdir, mount, and no
\* command of another app).
C15_SnapshotInsideDownWindow ==
    (Len(cmds) > 0 /\ Mutating(cmds[Len(cmds)])) =>
        LET j == Len(cmds)
            c == cmds[j] IN
        /\ (c.op = "zfs snapshot" /\ config.apps[c.a].containers # <<>>) =>
              /\ ContainersDown(c.a, j)
              /\ \A x \in Range(config.apps[c.a].containers) : ~running[x]
        /\ \A a \in 1..Len(config.apps) :
              ContainersDown(a, j) =>
                 \/ c.op = "zfs snapshot" /\ c.a = a /\ c.ds \in AppOrigins(a)
                 \/ c.op = "docker start" /\ c.ph = "start" /\ c.a = a

\* an app with three containers was stopped, its mount was snapshotted, and it is
\* about to be started
C15_Witness ==
    /\ pc.ph = "start"
    /\ Len(config.apps[pc.a].containers) = 3
    /\ Len(cmds) > 0
    /\ cmds[Len(cmds)].op = "zfs snapshot" /\ cmds[Len(cmds)].ok
    /\ ContainersDown(pc.a, Len(cmds))
    /\ runs > 1

\* C16: in every state of completed and aborted runs with one retention R, from empty
\* origins: every snapshot is backup or backup-N with 1 <= N <= R, no two names hold the
\* same point in time, a smaller generation number holds a newer point in time (backup
\* being generation 0), and no create is issued while origin@backup exists.
C16_SnapshotIdentity ==
    /\ runs > 0 =>
          \A o \in DOMAIN snaps :
              /\ Names(o) \subseteq 0..config.retention
              /\ \A i, j \in Names(o) : i < j => snaps[o][i] > snaps[o][j]
    /\ (Len(cmds) > 0 /\ cmds[Len(cmds)].op = "zfs snapshot") => ~cmds[Len(cmds)].clash

\* after an aborted run the next run has shifted backup-1 to backup-2 and created backup
\* again: the names leave a hole at backup-1
C16_Witness ==
    /\ aborts = 1
    /\ Len(cmds) > 0 /\ cmds[Len(cmds)].op = "zfs snapshot" /\ cmds[Len(cmds)].ok
    /\ \E o \in DOMAIN snaps : Names(o) = {0, 2}

\* the datasets whose @backup the republish of `mo` may mount
Sources(mo) == {mo.origin} \cup {ChildDataset(mo, mo.children[i]) : i \in 1..Len(mo.children)}

\* C17: every mount command has origin@backup, or origin/child@backup, as its source;
\* when it is issued that snapshot exists and is the one this run created, not one left
\* by an earlier cycle and not an archived generation.
C17_MountsNewestOnly ==
    (Len(cmds) > 0 /\ cmds[Len(cmds)].op = "mount") =>
        LET j == Len(cmds)
            c == cmds[j]
            mo == config.apps[c.a].mounts[c.m] IN
        /\ c.gen = 0
        /\ c.ds \in Sources(mo)
        /\ c.pit # 0
        /\ \E i \in 1..(j - 1) :
              /\ cmds[i].op = "zfs snapshot" /\ cmds[i].ok
              /\ cmds[i].ds = mo.origin /\ cmds[i].pit = c.pit
        /\ \A n \in 1..MaxGen : snaps[mo.origin][n] # c.pit

\* the third run mounts a child from the snapshot it created while the snapshots of the
\* two earlier runs exist as backup-1 and backup-2
C17_Witness ==
    /\ Len(cmds) > 0
    /\ cmds[Len(cmds)].op = "mount" /\ cmds[Len(cmds)].ok
    /\ cmds[Len(cmds)].ph = "mount_child"
    /\ runs = 3
    /\ Names(config.apps[cmds[Len(cmds)].a].mounts[cmds[Len(cmds)].m].origin) = {0, 1, 2}

\* the paths a republish of `mo` publishes
PathsOf(mo) == {mo.destination} \cup {ChildPath(mo, mo.children[i]) : i \in 1..Len(mo.children)}

\* the dataset whose @backup belongs at path p of `mo`
SourceAt(mo, p) ==
    IF p = mo.destination THEN mo.origin
    ELSE CHOOSE d \in Sources(mo) : \E i \in 1..Len(mo.children) :
            p = ChildPath(mo, mo.children[i]) /\ d = ChildDataset(mo, mo.children[i])

\* the newest command is the last mount of a republish and it succeeded
RepublishCompleted ==
    /\ Len(cmds) > 0
    /\ cmds[Len(cmds)].op = "mount" /\ cmds[Len(cmds)].ok
    /\ LET c == cmds[Len(cmds)]
           mo == config.apps[c.a].mounts[c.m] IN
       c.path = IF mo.children = <<>> THEN mo.destination
                ELSE ChildPath(mo, mo.children[Len(mo.children)])

\* destination and children of the republished mount are mounted once, from @backup
PublishedOnce ==
    RepublishCompleted =>
        LET c == cmds[Len(cmds)]
            mo == config.apps[c.a].mounts[c.m] IN
        \A p \in PathsOf(mo) :
            mnt[p] = << [ds |-> SourceAt(mo, p), pit |-> snaps[mo.origin][0]] >>

\* a step that issues a umount or a mount: the umount names a current mount point, the
\* mount names a path that is not a mount point, a child only inside its mounted parent
RepublishStep ==
    (Len(cmds') = Len(cmds) + 1 /\ Remounting(cmds'[Len(cmds')])) =>
        LET c == cmds'[Len(cmds')]
            mo == config.apps[c.a].mounts[c.m] IN
        /\ c.op = "umount" => IsMountPoint(c.path)
        /\ c.op = "mount" => ~IsMountPoint(c.path)
        /\ (c.op = "mount" /\ c.path # mo.destination) => IsMountPoint(mo.destination)

\* C18: from every mount state an earlier run leaves (nothing mounted, everything
\* mounted, or part of it after an abort amid the unmounts or the mounts), republish
\* unmounts only paths that are mount points, none when the destination is not one,
\* mounts nothing over an existing mount, and when all its commands succeed the
\* destination and every child are mounted exactly once from @backup.
C18_RepublishFromAnyState == [][RepublishStep /\ PublishedOnce']_vars

\* after a run that aborted with only part of the paths of a two-child mount mounted,
\* the next republish has unmounted what was mounted and mounted all three paths
C18_Witness ==
    /\ RepublishCompleted
    /\ aborts = 1
    /\ file.apps = TwoApps
    /\ cmds[Len(cmds)].a = 1
    /\ Len(Republish(1, 1)) = 5
    /\ \A k \in 1..5 : Republish(1, 1)[k].ok

\* the newest command is a destroy of a snapshot that was mounted when it was issued
DestroysPublished ==
    /\ Len(cmds) > 0
    /\ cmds[Len(cmds)].op = "zfs destroy"
    /\ cmds[Len(cmds)].clash

\* C19: in completed and aborted runs, with every retention, no destroy of
\* origin@backup-R, in archive or in prune, is issued on the point in time that is
\* mounted at the destination.
C19_NoDestroyOfPublished == ~DestroysPublished

\* the part of C19 the code meets: as long as no run has aborted
C19_NoDestroyOfPublishedWithoutAbort == aborts = 0 => ~DestroysPublished

Stops == SelectSeq(cmds, LAMBDA c : c.op = "docker stop")

Starts == SelectSeq(cmds, LAMBDA c : c.op = "docker start")

\* the phase whose start brings up what phase `ph` stopped
StartPhase(ph) == IF ph = "stop" THEN "start" ELSE "bk_start"

\* C20: when a run reaches Done, every origin@backup exists, was created in this run and
\* is mounted at its destination with every child; no origin@backup-R exists; every
\* stop of an app's containers or of the backup group is followed by their start, every
\* container is up, and the run issued as many stops as starts.
C20_DonePostcondition ==
    pc.ph = "done" =>
        /\ \A mo \in AllMounts(config.apps) :
              /\ snaps[mo.origin][0] # 0
              /\ CreatedInRun(mo.origin, snaps[mo.origin][0])
              /\ \A p \in PathsOf(mo) :
                    /\ IsMountPoint(p)
                    /\ mnt[p][Len(mnt[p])] = [ds |-> SourceAt(mo, p), pit |-> snaps[mo.origin][0]]
              /\ snaps[mo.origin][config.retention] = 0
        /\ \A i \in 1..Len(cmds) :
              cmds[i].op = "docker stop" =>
                 \E j \in (i + 1)..Len(cmds) :
                    /\ cmds[j].op = "docker start" /\ cmds[j].ok
                    /\ cmds[j].ph = StartPhase(cmds[i].ph) /\ cmds[j].a = cmds[i].a
                    /\ Range(cmds[j].argv) = Range(cmds[i].argv)
        /\ Len(Stops) = Len(Starts)
        /\ \A c \in DOMAIN running : running[c]

\* the third run, after an aborted one, completes with two apps and a backup group
C20_Witness ==
    /\ pc.ph = "done"
    /\ runs = 3 /\ aborts = 1
    /\ file.apps = TwoApps
    /\ config.backup_containers # <<>>
    /\ Len(Stops) = 2 /\ Len(Starts) = 2
    /\ \E k \in 1..Len(cmds) : cmds[k].op = "zfs destroy" /\ cmds[k].ph = "prune"

====
